---- MODULE Spec2Model ----
(***************************************************************************)
(* Credential lifecycle and request dispatch of ZohoProjectsServer         *)
(* (src/src/index.ts): the token store (config.accessToken and             *)
(* tokenExpiresAt), refreshAccessToken and makeRequest, run by several     *)
(* tool invocations that interleave at the awaited HTTP calls.             *)
(*                                                                         *)
(* Granularity.  JavaScript runs each continuation to completion, so every *)
(* action below is the synchronous code between two awaited HTTP           *)
(* exchanges: an invocation is suspended either on the token endpoint      *)
(* (pc = "refresh") or on a resource endpoint (pc = "fetch").  Reading the *)
(* body of a response (response.text(), response.json()) is folded into    *)
(* the arrival of that response.                                           *)
(*                                                                         *)
(* Times are milliseconds, as in the code.  Date.now() is the variable     *)
(* now; it is read once per continuation.                                  *)
(*                                                                         *)
(* History.  Every invocation runs the same code on the same kind of       *)
(* record.  The fields that only record what a dispatch did (its outcome,  *)
(* the last answer, the counters and the failure marks) are kept for one   *)
(* invocation, Observed, and erased for the others, which are the          *)
(* interference the observed dispatch runs against.  All invocations being *)
(* alike, what is shown of the observed one holds of each.                 *)
(*                                                                         *)
(* Two specifications.  Spec is the server with its dispatching tools      *)
(* (makeRequest).  SpecBinary adds the two download tools,                 *)
(* downloadInlineImage and downloadCommentAttachment, which fetch a        *)
(* download URL themselves (pc = "download", pc = "redownload").  The      *)
(* download followed is that of the observed invocation, with dispatches   *)
(* running beside it.                                                      *)
(***************************************************************************)
EXTENDS Integers, FiniteSets, Sequences, TLC

\* ------------------------------------------------------------------ bounds
NumInvocations == 2      \* tool invocations that may overlap
MaxTicks == 2            \* clock advances in one behaviour

\* --------------------------------------------------------------- constants
StartTime == 1000000         \* Date.now() when the constructor runs
InitialLifetimeSec == 3600   \* constructor: Date.now() + 3600 * 1000
SafetyMarginSec == 300       \* refreshAccessToken: data.expires_in - 300
MsPerSec == 1000
NaN == -2000000000           \* the number NaN (undefined - 300) * 1000

Undefined == "<undefined>"   \* a property the JSON body does not carry
Procs == 1..NumInvocations
Observed == CHOOSE p \in Procs : TRUE    \* the invocation whose history is kept

\* What the environment can answer.
EnvTokens == {"", "A"}                    \* ZOHO_ACCESS_TOKEN unset or set
\* ZOHO_REFRESH_TOKEN, ZOHO_CLIENT_ID, ZOHO_CLIENT_SECRET: each set or unset
EnvTriples == {<<rt, id, cs>> : rt \in {"", "rt"}, id \in {"", "id"}, cs \in {"", "cs"}}
ServerTokens == {Undefined, "B"}          \* data.access_token (Undefined: missing)
ExpiresIn == {NaN, 300, 3600}             \* data.expires_in (NaN: missing)
Statuses == {200, 401, 500}               \* response.status
\* response body text: each answer carries its own text, named here after the
\* attempt it answers
BodyOfAttempt(isRetry) == IF isRetry THEN "body of retry" ELSE "body of first"
RefreshFailures == {"http_error", "network_error", "bad_body"}
\* ZOHO_PORTAL_ID, ZOHO_API_DOMAIN, ZOHO_ACCOUNTS_DOMAIN: read once, by the
\* constructor
PortalId == "portal"
ApiDomain == "https://projectsapi.zoho.com"
AccountsDomain == "https://accounts.zoho.com"
\* the download URL found in the attachment details (Undefined: none)
DownloadUrls == {Undefined, "url"}
\* the two download helpers: downloadInlineImage, downloadCommentAttachment
Downloads == {"image", "attachment"}
TickSteps == {3300 * MsPerSec}

VARIABLES
    config,          \* this.config
    tokenExpiresAt,  \* this.tokenExpiresAt
    now,             \* Date.now()
    ticks,           \* clock advances so far
    origin,          \* history: the answer (and its time) each stored field was taken from
    trueExpiry,      \* history: when the stored token really expires at the server
    inv              \* per invocation: position in makeRequest or in a
                     \* download helper, and its locals

vars == <<config, tokenExpiresAt, now, ticks, origin, trueExpiry, inv>>

\* ------------------------------------------------------- JavaScript values
\* !s for a string or undefined
Truthy(s) == s # "" /\ s # Undefined

\* a >= b on numbers: false when either is NaN
Ge(a, b) == a # NaN /\ b # NaN /\ a >= b

\* a + b on numbers
Plus(a, b) == IF a = NaN \/ b = NaN THEN NaN ELSE a + b

\* ------------------------------------------------------------ the outcomes
NoResp == [status |-> 0, body |-> ""]
NoResult == [kind |-> "none", status |-> 0, body |-> ""]
Json(resp) == [kind |-> "json", status |-> resp.status, body |-> resp.body]
MissingCredential == [kind |-> "MissingCredential", status |-> 0, body |-> ""]
RefreshFailed == [kind |-> "RefreshFailed", status |-> 0, body |-> ""]
TransportError == [kind |-> "TransportError", status |-> 0, body |-> ""]
\* `Zoho API error: ${response.status} - ${errorText}`
RemoteApiError(resp) == [kind |-> "RemoteApiError", status |-> resp.status, body |-> resp.body]

\* the base64 content made of a downloaded response
Bytes(resp) == [kind |-> "bytes", status |-> resp.status, body |-> resp.body]
\* `Failed to download image: ${response.status} - ${await response.text()}`
DownloadError(resp) == [kind |-> "DownloadError", status |-> resp.status, body |-> resp.body]
\* `Failed to download image after token refresh: ${retryResponse.status}`
DownloadRetryError(resp) == [kind |-> "DownloadRetryError", status |-> resp.status, body |-> ""]
\* `No download URL found for attachment. ...`
NoDownloadUrl == [kind |-> "NoDownloadUrl", status |-> 0, body |-> ""]

\* `Unknown tool: ${name}`
UnknownTool(name) == [kind |-> "UnknownTool", status |-> 0, body |-> name]

\* Authorization: `Zoho-oauthtoken ${this.config.accessToken}`
AuthHeader(tok) == <<"Zoho-oauthtoken", tok>>
NoHeader == <<>>

IdleInv ==
    [pc |-> "idle", op |-> "tool", nBin |-> 0, binCalls401 |-> 0, isRetry |-> FALSE, site |-> "none", hdr |-> NoHeader,
     first |-> NoResp, last |-> NoResp, result |-> NoResult,
     nHttp |-> 0, nRefresh401 |-> 0, nRefreshPro |-> 0, proCalls |-> 0,
     proFailed |-> FALSE, failed401 |-> FALSE]

\* --------------------------------------------------------- the token store
\* a faulty variant: the guard tests the refresh token alone
CanRefreshTokenOnly(cfg) == Truthy(cfg.refreshToken)

\* refreshAccessToken's guard: all of the refresh triple is configured
CanRefresh(cfg) ==
    Truthy(cfg.refreshToken) /\ Truthy(cfg.clientId) /\ Truthy(cfg.clientSecret)

\* a faulty variant: the boundary now = expiresAt counts as fresh
IsStaleStrict(t, expiresAt) == t # NaN /\ expiresAt # NaN /\ t > expiresAt

\* makeRequest's freshness test: Date.now() >= this.tokenExpiresAt
IsStale(t, expiresAt) == Ge(t, expiresAt)

\* a faulty variant: the expiry is an hour ahead whether or not a token is set
InitialExpiryAlwaysHour(tok, t) == t + InitialLifetimeSec * MsPerSec

\* constructor: this.config.accessToken ? Date.now() + 3600 * 1000 : 0
InitialExpiry(tok, t) == IF Truthy(tok) THEN t + InitialLifetimeSec * MsPerSec ELSE 0

\* a faulty variant: the reported lifetime is not used
NewExpiryIgnoresLifetime(t, expires_in) == IF expires_in = NaN THEN NaN ELSE t

\* a faulty variant: the safety margin is not subtracted
NewExpiryNoMargin(t, expires_in) ==
    IF expires_in = NaN THEN NaN ELSE Plus(t, expires_in * MsPerSec)

\* refreshAccessToken: Date.now() + (data.expires_in - 300) * 1000
NewExpiry(t, expires_in) ==
    IF expires_in = NaN THEN NaN ELSE Plus(t, (expires_in - SafetyMarginSec) * MsPerSec)

\* a faulty variant: only the token is assigned; the expiry keeps its old value
ApplyRefreshTokenOnly(st, data, t) ==
    [config |-> [st.config EXCEPT !.accessToken = data.access_token],
     tokenExpiresAt |-> st.tokenExpiresAt,
     origin |-> [st.origin EXCEPT !.token = <<data, t>>],
     trueExpiry |-> IF data.expires_in = NaN THEN NaN
                    ELSE t + data.expires_in * MsPerSec]

\* a faulty variant: the refresh token is taken from the answer as well
ApplyRefreshRotatesRefreshToken(st, data, t) ==
    [config |-> [st.config EXCEPT !.accessToken = data.access_token,
                                  !.refreshToken = Undefined],
     tokenExpiresAt |-> NewExpiry(t, data.expires_in),
     origin |-> [token |-> <<data, t>>, expiry |-> <<data, t>>],
     trueExpiry |-> IF data.expires_in = NaN THEN NaN
                    ELSE t + data.expires_in * MsPerSec]

\* a faulty variant: once a refresh has been stored, later answers are dropped
ApplyRefreshFirstWins(st, data, t) ==
    IF st.origin.token[1] # [access_token |-> "env", expires_in |-> InitialLifetimeSec]
    THEN st
    ELSE [config |-> [st.config EXCEPT !.accessToken = data.access_token],
          tokenExpiresAt |-> NewExpiry(t, data.expires_in),
          origin |-> [token |-> <<data, t>>, expiry |-> <<data, t>>],
          trueExpiry |-> IF data.expires_in = NaN THEN NaN
                         ELSE t + data.expires_in * MsPerSec]

\* refreshAccessToken's two assignments, which no await separates: the store
\* after a 2xx answer `data` processed at time t
ApplyRefresh(st, data, t) ==
    [config |-> [st.config EXCEPT !.accessToken = data.access_token],
     tokenExpiresAt |-> NewExpiry(t, data.expires_in),
     origin |-> [token |-> <<data, t>>, expiry |-> <<data, t>>],
     trueExpiry |-> IF data.expires_in = NaN THEN NaN
                    ELSE t + data.expires_in * MsPerSec]

\* a faulty variant: the stored token is dropped when the refresh fails
ClearTokenOnFailure(st) == [st EXCEPT !.config.accessToken = ""]

\* refreshAccessToken when the answer is not ok, fetch rejects or the body is
\* unusable: the throw precedes both assignments
KeepStore(st) == st

Store == [config |-> config, tokenExpiresAt |-> tokenExpiresAt,
          origin |-> origin, trueExpiry |-> trueExpiry]

SetStore(st) ==
    /\ config' = st.config
    /\ tokenExpiresAt' = st.tokenExpiresAt
    /\ origin' = st.origin
    /\ trueExpiry' = st.trueExpiry

\* ------------------------------------------------------------- makeRequest
\* the dispatch ends: the promise of the outermost makeRequest settles with
\* `res` and the frames with their locals are gone
Finish(r, res) ==
    [r EXCEPT !.pc = "done", !.result = res, !.isRetry = FALSE, !.site = "none",
              !.hdr = NoHeader, !.first = NoResp]

\* a faulty variant: the catch rethrows what it caught
CatchRethrows(r, err) == err

\* the catch of the 401 branch: whatever the try block threw is logged and
\* the error of the first response is thrown
CatchIn401Branch(r, err) == RemoteApiError(r.first)

\* a faulty variant: the exception is lost and the promise never settles
ThrowNeverSettles(r, err) == [r EXCEPT !.pc = "hung"]

\* an exception leaves the running makeRequest frame; the frame of the retry
\* runs inside the try block of the first frame
Throw(r, err) ==
    IF r.isRetry THEN Finish(r, CatchIn401Branch(r, err)) ELSE Finish(r, err)

\* fetch(url, options) with the Authorization header built from the store
SendRequest(r, tok) ==
    [r EXCEPT !.pc = "fetch", !.site = "none", !.hdr = AuthHeader(tok), !.nHttp = @ + 1]

\* a faulty variant: the request goes out without the empty-token guard
SendWithoutTokenCheck(r, tok) == SendRequest(r, tok)

\* the empty-token guard, then the request
CheckTokenAndSend(r, tok) ==
    IF ~Truthy(tok) THEN Throw(r, MissingCredential) ELSE SendRequest(r, tok)

\* refreshAccessToken past its guard: the POST to the token endpoint is sent;
\* the locals of the suspended makeRequest frame (its headers among them) stay
SendRefresh(r, site) ==
    [r EXCEPT !.pc = "refresh", !.site = site,
              !.nRefresh401 = IF site = "on401" THEN @ + 1 ELSE @,
              !.nRefreshPro = IF site = "proactive" THEN @ + 1 ELSE @]

\* a faulty variant: the token is refreshed before every request
MakeRequestAlwaysRefreshes(r, isRetry, st, t) ==
    LET f == [r EXCEPT !.isRetry = isRetry]
        c == [f EXCEPT !.proCalls = @ + 1]
    IN IF CanRefresh(st.config)
       THEN SendRefresh(c, "proactive")
       ELSE CheckTokenAndSend(f, st.config.accessToken)

\* a faulty variant: a stale token that cannot be refreshed is not used
MakeRequestRejectsStaleToken(r, isRetry, st, t) ==
    LET f == [r EXCEPT !.isRetry = isRetry]
        c == [f EXCEPT !.proCalls = @ + 1]
    IN IF IsStale(t, st.tokenExpiresAt)
       THEN IF CanRefresh(st.config)
            THEN SendRefresh(c, "proactive")
            ELSE Throw(c, MissingCredential)
       ELSE CheckTokenAndSend(f, st.config.accessToken)

\* makeRequest from its entry to its first await: refreshAccessToken is
\* called when the store is stale, and returns at once, having done nothing,
\* when the triple is incomplete
MakeRequest(r, isRetry, st, t) ==
    LET f == [r EXCEPT !.isRetry = isRetry]
        c == [f EXCEPT !.proCalls = @ + 1]
    IN IF IsStale(t, st.tokenExpiresAt)
       THEN IF CanRefresh(st.config)
            THEN SendRefresh(c, "proactive")
            ELSE CheckTokenAndSend(c, st.config.accessToken)
       ELSE CheckTokenAndSend(f, st.config.accessToken)

\* response.ok
IsOk(status) == status >= 200 /\ status <= 299

\* a faulty variant: the branch does not test isRetry
RetryOn401Always(status, isRetry, cfg) ==
    /\ status = 401
    /\ Truthy(cfg.refreshToken) /\ Truthy(cfg.clientId) /\ Truthy(cfg.clientSecret)

\* a faulty variant: the branch tests the refresh token alone
RetryOn401RefreshTokenOnly(status, isRetry, cfg) ==
    /\ status = 401
    /\ ~isRetry
    /\ Truthy(cfg.refreshToken)

\* a faulty variant: the branch does not test the status
RetryOnAnyError(status, isRetry, cfg) ==
    /\ ~isRetry
    /\ Truthy(cfg.refreshToken) /\ Truthy(cfg.clientId) /\ Truthy(cfg.clientSecret)

\* the condition of the refresh-and-retry branch
RetryOn401(status, isRetry, cfg) ==
    /\ status = 401
    /\ ~isRetry
    /\ Truthy(cfg.refreshToken) /\ Truthy(cfg.clientId) /\ Truthy(cfg.clientSecret)

\* makeRequest after its fetch resolved with `resp`
OnResponse(r, resp, st, t) ==
    LET g == [r EXCEPT !.last = resp] IN
    IF IsOk(resp.status) THEN Finish(g, Json(resp))
    ELSE IF RetryOn401(resp.status, g.isRetry, st.config)
         THEN IF CanRefresh(st.config)
              THEN SendRefresh([g EXCEPT !.first = resp], "on401")
              ELSE MakeRequest([g EXCEPT !.first = resp], TRUE, st, t)
         ELSE Throw(g, RemoteApiError(resp))

\* ---------------------------------------------------- the download helpers
\* downloadInlineImage and downloadCommentAttachment: fetch(url, { headers })
\* at either of their two fetch sites, with the header built from the store
SendDownload(r, pc, tok) ==
    [r EXCEPT !.pc = pc, !.site = "none", !.hdr = AuthHeader(tok), !.nBin = @ + 1]

\* a helper past its freshness test: the empty-token guard, then the try
\* block, which starts with the download (image) or with makeRequest for the
\* attachment details (attachment)
EnterTry(r, st, t) ==
    IF ~Truthy(st.config.accessToken) THEN Finish(r, MissingCredential)
    ELSE IF r.op = "image" THEN SendDownload(r, "download", st.config.accessToken)
    ELSE MakeRequest([r EXCEPT !.site = "none"], FALSE, st, t)

\* a helper from its entry to its first await
Download(r, op, st, t) ==
    LET f == [r EXCEPT !.op = op] IN
    IF IsStale(t, st.tokenExpiresAt) /\ CanRefresh(st.config)
    THEN SendRefresh(f, "download")
    ELSE EnterTry(f, st, t)

\* downloadCommentAttachment after its makeRequest settled: an error leaves
\* through the catch (an McpError as it is, any other wrapped); otherwise the
\* download URL is taken from the details and the download is sent
AfterDetails(r, url, st) ==
    IF r.result.kind # "json" THEN r
    ELSE IF url = Undefined THEN Finish(r, NoDownloadUrl)
    ELSE SendDownload([r EXCEPT !.result = NoResult, !.last = NoResp],
                      "download", st.config.accessToken)

\* a faulty variant: the branch does not test the status
RetryDownloadOnAnyError(status, cfg) == Truthy(cfg.refreshToken)

\* the condition of a helper's refresh-and-retry branch
RetryDownloadOn401(status, cfg) == status = 401 /\ Truthy(cfg.refreshToken)

\* the catch of a helper: `if (error instanceof McpError) throw error`
CatchOfDownload(err) == err

\* a helper after one of its fetches resolved with `resp`; the call of
\* refreshAccessToken in the 401 branch returns at once when the triple is
\* incomplete, and the second fetch follows
OnDownloadResponse(r, resp, st) ==
    LET g == [r EXCEPT !.last = resp] IN
    IF IsOk(resp.status) THEN Finish(g, Bytes(resp))
    ELSE IF r.pc = "redownload" THEN Finish(g, CatchOfDownload(DownloadRetryError(resp)))
    ELSE IF RetryDownloadOn401(resp.status, st.config)
         THEN LET c == [g EXCEPT !.first = resp, !.binCalls401 = @ + 1] IN
              IF CanRefresh(st.config)
              THEN SendRefresh(c, "download401")
              ELSE SendDownload(c, "redownload", st.config.accessToken)
         ELSE Finish(g, CatchOfDownload(DownloadError(resp)))

\* ------------------------------------------ the callers of refreshAccessToken
\* a faulty variant: the retry is sent with the headers built for the first attempt
AfterRefreshOkOldHeaders(r, st, t) ==
    IF r.site = "proactive"
    THEN CheckTokenAndSend(r, st.config.accessToken)
    ELSE [r EXCEPT !.pc = "fetch", !.isRetry = TRUE, !.nHttp = @ + 1]

\* the caller of refreshAccessToken resumes after a successful refresh
AfterRefreshOk(r, st, t) ==
    IF r.site = "proactive"
    THEN CheckTokenAndSend(r, st.config.accessToken)
    ELSE IF r.site = "on401" THEN MakeRequest(r, TRUE, st, t)
    ELSE IF r.site = "download" THEN EnterTry(r, st, t)
    ELSE SendDownload(r, "redownload", st.config.accessToken)

\* refreshAccessToken threw "Failed to refresh access token" to its caller
AfterRefreshFailed(r) ==
    IF r.site = "proactive"
    THEN Throw([r EXCEPT !.proFailed = ~r.isRetry], RefreshFailed)
    ELSE IF r.site = "on401"
         THEN Finish([r EXCEPT !.failed401 = TRUE], CatchIn401Branch(r, RefreshFailed))
    ELSE IF r.site = "download" THEN Finish(r, RefreshFailed)
    ELSE Finish([r EXCEPT !.failed401 = TRUE], CatchOfDownload(RefreshFailed))

\* the record of invocation p after a step.  History is kept for the observed
\* invocation only, and of a download its own, not that of the makeRequest it
\* calls; of the other invocations the position and the locals are kept.
Observe(p, r) ==
    IF p = Observed
    THEN IF r.op = "tool" THEN r
         ELSE [r EXCEPT !.nHttp = 0, !.nRefresh401 = 0, !.nRefreshPro = 0,
                        !.proCalls = 0, !.proFailed = FALSE]
    ELSE [r EXCEPT !.result = NoResult, !.last = NoResp,
                   !.nHttp = 0, !.nRefresh401 = 0, !.nRefreshPro = 0,
                   !.proCalls = 0, !.nBin = 0, !.binCalls401 = 0,
                   !.proFailed = FALSE, !.failed401 = FALSE]

\* ----------------------------------------------------------------- actions
\* the environment variables the constructor reads, as a source of the store
EnvData == [access_token |-> "env", expires_in |-> InitialLifetimeSec]

Init ==
    /\ \E tok \in EnvTokens, tr \in EnvTriples :
          /\ config = [accessToken |-> tok, portalId |-> PortalId,
                       apiDomain |-> ApiDomain, refreshToken |-> tr[1],
                       clientId |-> tr[2], clientSecret |-> tr[3],
                       accountsDomain |-> AccountsDomain]
          /\ tokenExpiresAt = InitialExpiry(tok, StartTime)
          /\ trueExpiry = IF Truthy(tok)
                          THEN StartTime + InitialLifetimeSec * MsPerSec ELSE NaN
    /\ now = StartTime
    /\ ticks = 0
    /\ origin = [token |-> <<EnvData, StartTime>>, expiry |-> <<EnvData, StartTime>>]
    /\ inv = [p \in Procs |-> IdleInv]

\* a tool handler calls makeRequest(endpoint, method, body)
Invoke(p) ==
    /\ inv[p].pc \in {"idle", "done"}
    /\ inv' = [inv EXCEPT ![p] = Observe(p, MakeRequest(IdleInv, FALSE, Store, now))]
    /\ UNCHANGED <<config, tokenExpiresAt, origin, trueExpiry, now, ticks>>

\* the token endpoint answers 2xx with a JSON object
RefreshOk(p) ==
    /\ inv[p].pc = "refresh"
    /\ \E tok \in ServerTokens, e \in ExpiresIn :
          LET st == ApplyRefresh(Store, [access_token |-> tok, expires_in |-> e], now)
          IN /\ SetStore(st)
             /\ inv' = [inv EXCEPT ![p] = Observe(p, AfterRefreshOk(inv[p], st, now))]
    /\ UNCHANGED <<now, ticks>>

\* the token endpoint answers non-2xx, is unreachable, or sends no JSON object
RefreshFail(p) ==
    /\ inv[p].pc = "refresh"
    /\ \E why \in RefreshFailures :
          /\ SetStore(KeepStore(Store))
          /\ inv' = [inv EXCEPT ![p] = Observe(p, AfterRefreshFailed(inv[p]))]
    /\ UNCHANGED <<now, ticks>>

\* the resource endpoint answers; when downloadCommentAttachment made the
\* call, it resumes once makeRequest has settled
Response(p) ==
    /\ inv[p].pc = "fetch"
    /\ \E s \in Statuses, url \in DownloadUrls :
          LET r == OnResponse(inv[p],
                              [status |-> s, body |-> BodyOfAttempt(inv[p].isRetry)],
                              Store, now)
          IN inv' = [inv EXCEPT ![p] =
                        Observe(p, IF r.op = "attachment"
                                   THEN AfterDetails(r, url, Store) ELSE r)]
    /\ UNCHANGED <<config, tokenExpiresAt, origin, trueExpiry, now, ticks>>

\* fetch rejects (network failure), or response.json() rejects
TransportFailure(p) ==
    /\ inv[p].pc = "fetch"
    /\ inv' = [inv EXCEPT ![p] = Observe(p, Throw(inv[p], TransportError))]
    /\ UNCHANGED <<config, tokenExpiresAt, origin, trueExpiry, now, ticks>>

\* time passes
Tick ==
    /\ ticks < MaxTicks
    /\ \E d \in TickSteps : now' = now + d
    /\ ticks' = ticks + 1
    /\ UNCHANGED <<config, tokenExpiresAt, origin, trueExpiry, inv>>

Next ==
    \/ \E p \in Procs : Invoke(p)
    \/ \E p \in Procs : RefreshOk(p)
    \/ \E p \in Procs : RefreshFail(p)
    \/ \E p \in Procs : Response(p)
    \/ \E p \in Procs : TransportFailure(p)
    \/ Tick

Spec == Init /\ [][Next]_vars

\* every HTTP call of invocation p that is under way is answered in the end,
\* by a response or by a network error
Answered(p) ==
    RefreshOk(p) \/ RefreshFail(p) \/ Response(p) \/ TransportFailure(p)

\* the server with its dispatching tools, when the network answers every call
LiveSpec == Spec /\ \A p \in Procs : WF_vars(Answered(p))

\* a tool handler calls downloadInlineImage or downloadCommentAttachment.
\* The download followed is that of the observed invocation; the invocations
\* beside it are dispatches, which act on the store as a download does: through
\* refreshAccessToken, when stale at their start and after a 401.
InvokeDownload(p) ==
    /\ p = Observed
    /\ inv[p].pc \in {"idle", "done"}
    /\ \E op \in Downloads :
          inv' = [inv EXCEPT ![p] = Observe(p, Download(IdleInv, op, Store, now))]
    /\ UNCHANGED <<config, tokenExpiresAt, origin, trueExpiry, now, ticks>>

\* the server of the image or attachment answers
DownloadResponse(p) ==
    /\ inv[p].pc \in {"download", "redownload"}
    /\ \E s \in Statuses :
          inv' = [inv EXCEPT ![p] =
                     Observe(p, OnDownloadResponse(
                                   inv[p],
                                   [status |-> s,
                                    body |-> BodyOfAttempt(inv[p].pc = "redownload")],
                                   Store))]
    /\ UNCHANGED <<config, tokenExpiresAt, origin, trueExpiry, now, ticks>>

\* the fetch of a download rejects, or the body cannot be read: the catch
\* wraps the error
DownloadFailure(p) ==
    /\ inv[p].pc \in {"download", "redownload"}
    /\ inv' = [inv EXCEPT ![p] = Observe(p, Finish(inv[p], TransportError))]
    /\ UNCHANGED <<config, tokenExpiresAt, origin, trueExpiry, now, ticks>>

\* the name under which the client calls the tool: one of the tools that go
\* through makeRequest, one of the download tools, or a name the switch of
\* the handler does not know
ToolName(op) ==
    CASE op = "tool" -> "list_portals"
      [] op = "image" -> "download_inline_image"
      [] op = "attachment" -> "download_comment_attachment"
      [] OTHER -> "no_such_tool"

\* what the tool threw is an McpError: all the errors except the rejection of
\* makeRequest's own fetch, which the download helpers wrap in one as well
IsMcpError(op, res) == res.kind # "TransportError" \/ op \in Downloads

\* the catch of the tool handler: an McpError is rethrown as it is, any other
\* error becomes `Error executing ${name}: ${error}`.  The reply is given by
\* the tool name its text carries (Undefined: none) and the failure it reports.
HandlerCatch(op, res) ==
    IF IsMcpError(op, res)
    THEN [tool |-> IF res.kind = "UnknownTool" THEN res.body ELSE Undefined,
          failure |-> res]
    ELSE [tool |-> ToolName(op), failure |-> res]

\* what the client receives for a failed invocation
ClientSees(r) == HandlerCatch(r.op, r.result)

\* the client calls a tool the handler does not know: the default branch of
\* the switch throws
InvokeUnknown(p) ==
    /\ inv[p].pc \in {"idle", "done"}
    /\ inv' = [inv EXCEPT ![p] =
                  Observe(p, Finish([IdleInv EXCEPT !.op = "unknown"],
                                    UnknownTool(ToolName("unknown"))))]
    /\ UNCHANGED <<config, tokenExpiresAt, origin, trueExpiry, now, ticks>>

\* the server with its download tools as well
NextBinary ==
    \/ Next
    \/ \E p \in Procs : InvokeUnknown(p)
    \/ \E p \in Procs : InvokeDownload(p)
    \/ \E p \in Procs : DownloadResponse(p)
    \/ \E p \in Procs : DownloadFailure(p)

SpecBinary == Init /\ [][NextBinary]_vars

\* ------------------------------------------------------------------ claims
\* The claims are stated of the observed dispatch, obs; the other invocations
\* run beside it.
Margin == SafetyMarginSec * MsPerSec
obs == inv[Observed]
Running(r) == r.pc \in {"refresh", "fetch"}
Done(r) == r.pc = "done"
First401 == [status |-> 401, body |-> BodyOfAttempt(FALSE)]
OthersRunning == \E q \in Procs \ {Observed} : Running(inv[q])

\* C1: a dispatch sends at most two requests to the remote API and triggers
\* at most one refresh from its 401 branch.
C1_AtMostTwoRequests == obs.nHttp <= 2 /\ obs.nRefresh401 <= 1

\* C1 witness: a dispatch that did send the retry after a 401-triggered refresh.
C1_Witness == Done(obs) /\ obs.nHttp = 2 /\ obs.nRefresh401 = 1

C3_ProactiveFailureSwallowed ==
    obs.proFailed =>
        /\ obs.result.kind # "RefreshFailed"
        /\ obs.nHttp >= 1 \/ obs.result.kind = "MissingCredential"

\* C4: after a 401 on the first attempt and a failed 401-triggered refresh the
\* dispatch has ended, with one request sent and the error of the first
\* response (status 401 and its body).
C4_OriginalErrorSurfaced ==
    obs.failed401 =>
        /\ Done(obs)
        /\ obs.nHttp = 1
        /\ obs.last = First401
        /\ obs.result = RemoteApiError(First401)

\* C4 witness: a dispatch whose 401-triggered refresh failed.
C4_Witness == obs.failed401 /\ Done(obs) /\ obs.nRefresh401 = 1

\* C5 as the spec states it: a dispatch that ended with the remote-API error
\* reports the status and body of the last response it received.
C5_ErrorCarriesLastResponse ==
    (Done(obs) /\ obs.result.kind = "RemoteApiError" /\ ~IsOk(obs.last.status))
    => /\ obs.result.status = obs.last.status
       /\ obs.result.body = obs.last.body

\* C6: no request in flight, of any invocation, carries an empty token, and
\* with an empty stored token and an incomplete triple a dispatch ends with
\* the missing-credential error, no request and no refresh having been sent.
C6_NoEmptyBearer ==
    /\ \A p \in Procs :
          inv[p].pc = "fetch" =>
              \E tok \in EnvTokens \cup ServerTokens :
                  Truthy(tok) /\ inv[p].hdr = AuthHeader(tok)
    /\ (~Truthy(config.accessToken) /\ ~CanRefresh(config)) =>
          /\ \A p \in Procs : ~Running(inv[p])
          /\ Done(obs) => /\ obs.result = MissingCredential
                          /\ obs.nHttp = 0
                          /\ obs.nRefreshPro + obs.nRefresh401 = 0

\* C6 witness: a dispatch that ended with the missing-credential error before
\* any request, the token being empty and no refresh possible.
C6_Witness ==
    /\ Done(obs) /\ obs.result = MissingCredential /\ obs.nHttp = 0
    /\ ~Truthy(config.accessToken) /\ ~CanRefresh(config)

\* C7: with an incomplete triple a dispatch sends no refresh and at most one
\* request, and a 401 answer ends it with that 401 as the error.
C7_NoRetryWithoutTriple ==
    ~CanRefresh(config) =>
        /\ \A p \in Procs : inv[p].pc # "refresh" /\ ~inv[p].isRetry
        /\ obs.nRefresh401 = 0 /\ obs.nRefreshPro = 0
        /\ obs.nHttp <= 1
        /\ obs.last.status = 401 =>
              /\ Done(obs) /\ obs.nHttp = 1
              /\ obs.result = RemoteApiError(obs.last)

\* C7 witness: a 401 surfaced by a dispatch that has a refresh token but not
\* the whole triple.
C7_Witness ==
    /\ ~CanRefresh(config) /\ Truthy(config.refreshToken)
    /\ Done(obs) /\ obs.last.status = 401

\* C8: a step in which a refresh fails changes neither accessToken nor
\* tokenExpiresAt, and the caller of the refresher takes its error path: the
\* dispatch ends with an error and sends nothing more.
C8_FailedRefreshKeepsStore ==
    [][/\ \A p \in Procs :
             RefreshFail(p) =>
                 /\ config' = config /\ tokenExpiresAt' = tokenExpiresAt
                 /\ inv'[p].pc = "done"
       /\ RefreshFail(Observed) =>
             /\ obs'.result.kind \in {"RefreshFailed", "RemoteApiError"}
             /\ obs'.nHttp = obs.nHttp]_vars

\* C8 witness: a refresh has failed while a token is stored.
C8_Witness ==
    /\ obs.proFailed \/ obs.failed401
    /\ Truthy(config.accessToken)

\* C9: in every state the stored token and the stored expiry were taken from
\* the same source: the configuration, or one refresh response.
C9_PairFromOneSource == origin.token = origin.expiry

\* C9 witness: a refresh response has been stored while another invocation is
\* suspended on an HTTP call.
C9_Witness ==
    /\ origin.token[1] # EnvData
    /\ Done(obs) /\ obs.nRefreshPro = 1 /\ obs.nHttp = 1
    /\ OthersRunning

\* C10 as the spec states it: whenever a token is stored, tokenExpiresAt is
\* that token's true expiry minus the safety margin.
C10_ExpiryHasMargin ==
    (Truthy(config.accessToken) /\ trueExpiry # NaN /\ tokenExpiresAt # NaN)
    => tokenExpiresAt = trueExpiry - Margin

\* C11: whenever the stored expiry comes from a refresh response that reported
\* expires_in = e and was processed at time t, it is t + (e - 300) seconds;
\* and the continuation that stores the answer to the proactive refresh of a
\* dispatch sends the resource request with the token just stored.
C11_ExpiryIsLifetimeMinusMargin ==
    [][/\ LET d == origin'.expiry[1]
              t == origin'.expiry[2]
          IN (d # EnvData /\ d.expires_in # NaN)
             => tokenExpiresAt' = t + (d.expires_in - 300) * 1000
       /\ ( /\ RefreshOk(Observed) /\ obs.site = "proactive" /\ ~obs.isRetry
            /\ Truthy(config'.accessToken) )
          => /\ origin'.expiry[2] = now
             /\ obs'.pc = "fetch"
             /\ obs'.hdr = AuthHeader(config'.accessToken)
             /\ obs'.nHttp = 1]_vars

\* C11 witness: the configured token had expired, the refresh answered
\* {access_token: B, expires_in: 3600}, and the request is in flight with B
\* while the stored expiry is now + 3300 s.
C11_Witness ==
    /\ now >= StartTime + InitialLifetimeSec * MsPerSec
    /\ obs.pc = "fetch" /\ ~obs.isRetry /\ obs.nRefreshPro = 1 /\ obs.nHttp = 1
    /\ obs.hdr = AuthHeader("B")
    /\ origin.expiry = <<[access_token |-> "B", expires_in |-> 3600], now>>
    /\ tokenExpiresAt = now + 3300 * 1000

\* C12: a dispatch calls refreshAccessToken at its start exactly when
\* now >= expiresAt: it does for every expiry in the past and for
\* expiresAt = now, it does not for any expiry in the future (nor for an
\* expiry that is not a number), and the call sends the POST to the token
\* endpoint exactly when the triple is complete.
C12_RefreshIffStale ==
    [][Invoke(Observed)
       => LET isNumber == tokenExpiresAt # NaN IN
          /\ (isNumber /\ tokenExpiresAt <= now) => obs'.proCalls = 1
          /\ (isNumber /\ tokenExpiresAt > now) => obs'.proCalls = 0
          /\ obs'.proCalls = 1 <=> (isNumber /\ now >= tokenExpiresAt)
          /\ obs'.proCalls \in {0, 1}
          /\ (obs'.pc = "refresh")
             <=> (isNumber /\ now >= tokenExpiresAt /\ CanRefresh(config))]_vars

\* C12 witness: a dispatch that started at the boundary now = expiresAt and
\* is waiting for its proactive refresh.
C12_Witness ==
    /\ obs.pc = "refresh" /\ obs.site = "proactive" /\ ~obs.isRetry
    /\ obs.proCalls = 1 /\ obs.nHttp = 0
    /\ now = tokenExpiresAt

\* C13: while the store still holds the configuration without an access
\* token (no refresh has stored one), the store is stale, every dispatch
\* under way has called refreshAccessToken before anything else, and no
\* resource request has been issued by anyone.
C13_NoRequestBeforeRefresh ==
    (origin.token[1] = EnvData /\ ~Truthy(config.accessToken))
    => /\ tokenExpiresAt = 0 /\ now >= tokenExpiresAt
       /\ \A p \in Procs : inv[p].pc # "fetch"
       /\ obs.pc # "idle" => (obs.proCalls >= 1 /\ obs.nHttp = 0)
       /\ (obs.pc # "idle" /\ CanRefresh(config)) => obs.nRefreshPro >= 1

\* C13 witness: no token was configured, and the first dispatch is waiting
\* for the answer to its refresh, having issued no resource request.
C13_Witness ==
    /\ origin.token[1] = EnvData /\ ~Truthy(config.accessToken)
    /\ obs.pc = "refresh" /\ obs.site = "proactive"
    /\ obs.nRefreshPro = 1 /\ obs.nHttp = 0

\* C14: with any of the refresh triple missing, a call of refreshAccessToken
\* does nothing: no invocation ever waits for the token endpoint, no dispatch
\* ends with the refresh error, and the token and the expiry are those of the
\* configuration.
C14_IncompleteTripleRefreshIsNoOp ==
    (config.refreshToken = "" \/ config.clientId = "" \/ config.clientSecret = "")
    => /\ \A p \in Procs : inv[p].pc # "refresh"
       /\ obs.nRefreshPro = 0 /\ obs.nRefresh401 = 0
       /\ obs.result.kind # "RefreshFailed"
       /\ ~obs.proFailed /\ ~obs.failed401
       /\ origin.token[1] = EnvData /\ origin.expiry[1] = EnvData
       /\ config.accessToken \in EnvTokens
       /\ tokenExpiresAt = (IF config.accessToken = "" THEN 0
                            ELSE StartTime + 3600 * 1000)
       /\ obs.proCalls >= 1
          => \/ obs.pc = "fetch" /\ obs.hdr = AuthHeader(config.accessToken)
             \/ obs.pc = "done" /\ obs.result.kind # "none"

\* C14 witness: refreshAccessToken was called with only the client secret
\* missing, and the dispatch went on to its resource request.
C14_Witness ==
    /\ Truthy(config.refreshToken) /\ Truthy(config.clientId)
    /\ ~Truthy(config.clientSecret)
    /\ obs.proCalls = 1 /\ obs.pc = "fetch" /\ obs.nHttp = 1

\* C15: in static-token mode (an access token configured, the refresh triple
\* not) every dispatch, also one started after the locally computed expiry,
\* issues exactly one resource request carrying the configured token; the
\* token endpoint is never contacted and the store never changes.
C15_StaticTokenMode ==
    (origin.token[1] = EnvData /\ Truthy(config.accessToken) /\ ~CanRefresh(config))
    => /\ \A p \in Procs :
             /\ inv[p].pc # "refresh"
             /\ inv[p].pc = "fetch" => inv[p].hdr = AuthHeader(config.accessToken)
       /\ obs.pc # "idle" => obs.nHttp = 1
       /\ obs.pc = "done" => obs.result.kind \in {"json", "RemoteApiError", "TransportError"}
       /\ obs.nRefreshPro = 0 /\ obs.nRefresh401 = 0
       /\ config.accessToken = "A"
       /\ origin.expiry[1] = EnvData
       /\ tokenExpiresAt = StartTime + 3600 * 1000

\* C15 witness: a dispatch started after the local expiry has its request in
\* flight with the configured token.
C15_Witness ==
    /\ origin.token[1] = EnvData /\ ~CanRefresh(config)
    /\ now >= tokenExpiresAt /\ tokenExpiresAt > 0
    /\ obs.pc = "fetch" /\ obs.proCalls = 1 /\ obs.hdr = AuthHeader("A")

\* C16: when the first resource request of a dispatch is answered with a
\* non-success status other than 401, the dispatch ends at once: it has made
\* exactly one resource request and no refresh from the failure path, and its
\* error carries that status and body.  A retry answered that way ends the
\* dispatch as well: no third request and no second refresh follow.
C16_NoRetryOnOtherErrors ==
    /\ ( /\ obs.last.body = BodyOfAttempt(FALSE)
         /\ ~IsOk(obs.last.status) /\ obs.last.status # 401 )
       => /\ Done(obs)
          /\ obs.nHttp = 1 /\ obs.nRefresh401 = 0 /\ ~obs.failed401
          /\ obs.result = [kind |-> "RemoteApiError", status |-> obs.last.status,
                           body |-> obs.last.body]
    /\ ( /\ obs.last.body = BodyOfAttempt(TRUE)
         /\ ~IsOk(obs.last.status) /\ obs.last.status # 401 )
       => /\ Done(obs)
          /\ obs.nHttp = 2 /\ obs.nRefresh401 = 1
          /\ obs.result.kind = "RemoteApiError"

\* C16 witness: a dispatch with the full triple whose first request was
\* answered 500.
C16_Witness ==
    /\ CanRefresh(config)
    /\ obs.last = [status |-> 500, body |-> BodyOfAttempt(FALSE)]
    /\ Done(obs) /\ obs.result.status = 500 /\ obs.nHttp = 1

\* --------------------------------------------- claims on the download helpers
InDownload(r) == r.op \in Downloads
Downloading(r) == r.pc \in {"download", "redownload"}

\* C17: an invocation of a download helper sends at most two requests to
\* the URL it downloads from, the second only after the first was answered
\* 401, and it calls refreshAccessToken at most once from its 401 branch.
C17_DownloadAtMostTwoRequests ==
    InDownload(obs)
    => /\ obs.nBin <= 2 /\ obs.binCalls401 <= 1
       /\ obs.nBin = 2 => obs.binCalls401 = 1
       /\ obs.pc = "redownload"
          => (obs.nBin = 2 /\ obs.first.status = 401 /\ obs.last = obs.first)
       /\ (obs.pc = "refresh" /\ obs.site = "download401")
          => (obs.nBin = 1 /\ obs.first.status = 401)
       /\ (Done(obs) /\ obs.nBin = 2 /\ obs.result.kind # "TransportError")
          => obs.last.body = BodyOfAttempt(TRUE)

\* C17 witness: an attachment download that sent its second request after
\* a 401 and a refresh, and has ended.
C17_Witness ==
    /\ obs.op = "attachment" /\ Done(obs)
    /\ obs.nBin = 2 /\ obs.binCalls401 = 1 /\ CanRefresh(config)

\* C18 as stated: a helper sends its second request only when the refresh
\* triple is complete; with an incomplete triple a 401 on the download ends
\* the invocation with the error of that 401.
C18_DownloadRetryNeedsTriple ==
    (InDownload(obs) /\ ~CanRefresh(config))
    => /\ obs.nBin <= 1 /\ obs.pc # "redownload"
       /\ (obs.nBin = 1 /\ obs.last.status = 401 /\ ~Downloading(obs))
          => (Done(obs) /\ obs.result = DownloadError(obs.last))

\* C19 as stated: when the download was answered 401 and the refresh called
\* from the 401 branch failed, the invocation ends with the error of the 401
\* response.
C19_DownloadOriginalErrorSurfaced ==
    (InDownload(obs) /\ Done(obs) /\ obs.nBin = 1 /\ obs.failed401)
    => obs.result = DownloadError(First401)

\* C20 as stated: no request of a helper to the URL it downloads from
\* carries an empty token, the first no more than the second.
C20_DownloadNoEmptyBearer ==
    (InDownload(obs) /\ Downloading(obs)) => Truthy(obs.hdr[2])

\* ------------------------------------------------- claims on the whole server
\* C21: invocations that find the store stale together each send their own
\* refresh, and nothing worse follows: every answer to a refresh, in the
\* order the answers are processed, replaces token and expiry by its own
\* pair, so that the store holds the pair of the answer processed last; a
\* dispatch makes at most two resource requests, and no resource request in
\* flight carries an empty token.
C21_RedundantRefreshIsHarmless ==
    [][/\ (\E p \in Procs : RefreshOk(p))
          => LET d == origin'.token[1] IN
             /\ origin'.token = origin'.expiry /\ origin'.token[2] = now
             /\ d # EnvData
             /\ config'.accessToken = d.access_token
             /\ tokenExpiresAt' = (IF d.expires_in = NaN THEN NaN
                                   ELSE now + (d.expires_in - 300) * 1000)
       /\ obs'.nHttp <= 2
       /\ \A p \in Procs :
             inv'[p].pc = "fetch" => (inv'[p].hdr[2] # "" /\ inv'[p].hdr[2] # Undefined)
      ]_vars

\* C21 witness: no token was configured and two dispatches started together;
\* the refresh of the observed one has been answered (its request is in
\* flight with token B, and the store is fresh), while the refresh the
\* other one sent for the same staleness is still under way.
C21_Witness ==
    /\ ticks = 0
    /\ obs.pc = "fetch" /\ ~obs.isRetry /\ obs.nRefreshPro = 1
    /\ obs.hdr = AuthHeader("B")
    /\ tokenExpiresAt > now
    /\ \E o \in Procs \ {Observed} :
          inv[o].pc = "refresh" /\ inv[o].site = "proactive" /\ ~inv[o].isRetry

\* C22: no step of the server changes portalId, apiDomain, refreshToken,
\* clientId, clientSecret or accountsDomain, and a step that changes
\* accessToken or tokenExpiresAt is the processing of a 2xx answer by
\* refreshAccessToken.
C22_OnlyRefreshWritesStore ==
    [][/\ config'.portalId = config.portalId
       /\ config'.apiDomain = config.apiDomain
       /\ config'.accountsDomain = config.accountsDomain
       /\ config'.refreshToken = config.refreshToken
       /\ config'.clientId = config.clientId
       /\ config'.clientSecret = config.clientSecret
       /\ (config'.accessToken # config.accessToken \/ tokenExpiresAt' # tokenExpiresAt)
          => /\ \E p \in Procs : inv[p].pc = "refresh" /\ inv'[p] # inv[p]
             /\ origin'.token[2] = now /\ origin'.token[1] # EnvData
             /\ \A p \in Procs :
                   inv'[p] # inv[p] => inv'[p].result.kind # "RefreshFailed"
      ]_vars

\* C22 witness: a download of the observed invocation is under way with the
\* token a refresh has stored, and the rest of the configuration is as the
\* constructor set it.
C22_Witness ==
    /\ origin.token[1] # EnvData /\ config.accessToken = "B"
    /\ obs.pc = "redownload" /\ obs.hdr = AuthHeader("B")
    /\ config.refreshToken = "rt" /\ config.portalId = PortalId

\* C23: when every HTTP call is answered in the end, every dispatch under
\* way ends, in a JSON result or in an error; the retry is entered at most
\* once (one refresh from the 401 branch, two resource requests).
C23_DispatchTerminates ==
    /\ (obs.pc \notin {"idle", "done"}) ~> (obs.pc = "done")
    /\ [](obs.nRefresh401 <= 1 /\ obs.nHttp <= 2)
    /\ [](Done(obs) => obs.result.kind \in {"json", "MissingCredential", "RefreshFailed",
                                            "RemoteApiError", "TransportError"})

\* C23 witness: a dispatch that went through the refresh and the retry has
\* ended with the JSON of the retry.
C23_Witness ==
    /\ Done(obs) /\ obs.nRefresh401 = 1 /\ obs.nHttp = 2
    /\ obs.result.kind = "json" /\ obs.result.body = BodyOfAttempt(TRUE)

\* C24 as stated: the reply to every failed invocation names the tool that
\* was called and reports the failure the tool ran into.
Failed(r) == Done(r) /\ r.result.kind \notin {"json", "bytes"}
C24_ErrorNamesTool ==
    Failed(obs)
    => /\ ClientSees(obs).tool = ToolName(obs.op)
       /\ ClientSees(obs).failure = obs.result

\* C25: a dispatch that starts while the store is not stale sends its
\* resource request (or fails on an empty token) without calling
\* refreshAccessToken, and when the answer to that first request is not 401
\* the dispatch ends there: it has sent nothing to the token endpoint, and
\* none of its steps has changed accessToken or tokenExpiresAt.
C25_NoPrematureRefresh ==
    [][/\ (Invoke(Observed) /\ (tokenExpiresAt = NaN \/ now < tokenExpiresAt))
          => /\ obs'.pc \in {"fetch", "done"}
             /\ obs'.proCalls = 0 /\ obs'.nRefreshPro = 0
             /\ config' = config /\ tokenExpiresAt' = tokenExpiresAt
       /\ ( /\ Response(Observed) /\ ~obs.isRetry /\ obs.proCalls = 0
            /\ obs'.last.status # 401 )
          => /\ Done(obs') /\ obs'.nHttp = 1
             /\ obs'.nRefreshPro = 0 /\ obs'.nRefresh401 = 0
             /\ config' = config /\ tokenExpiresAt' = tokenExpiresAt
      ]_vars

\* C25 witness: with the full triple configured and the configured token
\* still fresh, a dispatch was answered 500 and has ended; the store is the
\* one the constructor set.
C25_Witness ==
    /\ CanRefresh(config) /\ origin.token[1] = EnvData /\ now < tokenExpiresAt
    /\ Done(obs) /\ obs.proCalls = 0 /\ obs.nHttp = 1 /\ obs.last.status = 500
    /\ obs.nRefreshPro = 0 /\ obs.nRefresh401 = 0

\* C26 as stated: right after any successful refresh the store is not stale,
\* whatever expires_in was reported, so the retry that follows a refresh from
\* the 401 branch sends no proactive refresh of its own.
C26_Original ==
    [][/\ (\E p \in Procs : RefreshOk(p))
          => ~(tokenExpiresAt' # NaN /\ now >= tokenExpiresAt')
       /\ (RefreshOk(Observed) /\ obs.site = "on401")
          => (obs'.pc # "refresh" /\ obs'.nRefreshPro = obs.nRefreshPro)
      ]_vars

\* C26 amended: right after a successful refresh the store is not stale
\* exactly when the reported expires_in is more than 300 s or is missing (the
\* expiry is then not a number, which is never stale).  In that case the retry
\* that follows a refresh from the 401 branch sends no proactive refresh, and
\* a dispatch starting at the same instant does not refresh.  With an
\* expires_in of 300 s or less the store is stale as soon as the answer is
\* stored, and the retry sends one proactive refresh before its request.
C26_FreshAfterRefreshIfLifetimeExceedsMargin ==
    [][LET e == origin'.expiry[1].expires_in
           long == e = NaN \/ e > 300
           staleAfter == tokenExpiresAt' # NaN /\ now >= tokenExpiresAt'
       IN /\ (\E p \in Procs : RefreshOk(p)) => (long <=> ~staleAfter)
          /\ (RefreshOk(Observed) /\ obs.site = "on401")
             => IF long
                THEN obs'.pc \in {"fetch", "done"} /\ obs'.nRefreshPro = obs.nRefreshPro
                ELSE /\ obs'.pc = "refresh" /\ obs'.site = "proactive" /\ obs'.isRetry
                     /\ obs'.nRefreshPro = obs.nRefreshPro + 1
          /\ ( /\ Invoke(Observed)
               /\ origin.expiry[1] # EnvData /\ origin.expiry[2] = now
               /\ origin.expiry[1].expires_in = NaN \/ origin.expiry[1].expires_in > 300 )
             => obs'.proCalls = 0
      ]_vars

\* C26 witness: the refresh from the 401 branch was answered with a lifetime
\* of 3600 s, and the retry is in flight without a proactive refresh.
C26_Witness ==
    /\ obs.pc = "fetch" /\ obs.isRetry /\ obs.nRefresh401 = 1 /\ obs.nRefreshPro = 0
    /\ origin.expiry = <<[access_token |-> "B", expires_in |-> 3600], now>>
    /\ tokenExpiresAt > now

\* C27 as stated: in every state an empty stored access token comes with a
\* stale store, so that a dispatch that finds no token calls
\* refreshAccessToken before it gives up; a 2xx answer without access_token
\* leaves no empty token that counts as fresh.
C27_EmptyTokenImpliesStale ==
    /\ (config.accessToken = "" \/ config.accessToken = Undefined)
       => (tokenExpiresAt # NaN /\ now >= tokenExpiresAt)
    /\ (Done(obs) /\ obs.result = MissingCredential) => obs.proCalls >= 1

\* C28 as stated: with the full triple, a failed proactive refresh leaves the
\* store as it was (stale, unless another invocation has refreshed it in the
\* meantime); a dispatch that starts while the store is stale
\* sends the refresh again; and when the token endpoint then answers 2xx, the
\* dispatch sends its resource request with the token of that answer.
C28_RecoversAfterFailedRefresh ==
    [][/\ (RefreshFail(Observed) /\ obs.site = "proactive")
          => /\ config' = config /\ tokenExpiresAt' = tokenExpiresAt
             /\ (tokenExpiresAt # NaN /\ now >= tokenExpiresAt)
                => (tokenExpiresAt' # NaN /\ now >= tokenExpiresAt')
       /\ (Invoke(Observed) /\ CanRefresh(config) /\ now >= tokenExpiresAt
           /\ tokenExpiresAt # NaN)
          => (obs'.pc = "refresh" /\ obs'.site = "proactive")
       /\ (RefreshOk(Observed) /\ obs.site = "proactive")
          => /\ obs'.pc = "fetch"
             /\ obs'.hdr = AuthHeader(origin'.token[1].access_token)
             /\ origin'.token[2] = now
      ]_vars

====
